---- MODULE Spec2Model ----
(***************************************************************************)
(* A model of storyscript/story.py: the Story class, which reads a story,  *)
(* removes its comments, parses it, compiles it and routes the failures of *)
(* the parser and of the compiler to Story.error.                          *)
(*                                                                         *)
(* Text is a sequence of one-character strings.  An attribute that Python  *)
(* may not have set yet (self.tree, self.compiled) is the empty sequence   *)
(* Unset, and a set attribute with value v is <<v>>.                       *)
(***************************************************************************)
EXTENDS Integers, Sequences, FiniteSets, TLC

VARIABLES
    docs,       \* Spec: the Story objects the caller holds, by slot
    exit_code,  \* Spec: the exit status of the process, once it has ended
    last,       \* Spec: what the latest call did and what its caller saw
    source,     \* TextSpec: the text handed to clean_source
    cleaned,    \* TextSpec: clean_source(source), once computed
    recleaned,  \* TextSpec: clean_source of the cleaned text, once computed
    imports,    \* ModulesSpec: the nodes self.tree.find_data('imports') yields
    resolved    \* ModulesSpec: what modules() did, once called

storyVars == <<docs, exit_code, last>>
textVars == <<source, cleaned, recleaned>>
modulesVars == <<imports, resolved>>
vars == <<docs, exit_code, last, source, cleaned, recleaned, imports, resolved>>

Unset == <<>>
Some(v) == <<v>>

(***************************************************************************)
(* Bounds of the text model.                                               *)
(***************************************************************************)
MaxLen == 5       \* longest text drawn from the alphabet
MaxPart == 1      \* longest prefix, interior and suffix of a block-comment text
MaxLines == 3     \* most interior lines of a block comment that spans lines

Alphabet == {"a", " ", "#", "\n", "\r"}
PlainAlphabet == {"a", " "}

StringsOver(chars, n) == UNION {[1..k -> chars] : k \in 0..n}

(***************************************************************************)
(* Story.clean_source: re.sub(expression, '', source), where expression   *)
(* has two alternatives.  The first is a lookbehind for ###, one \s, the   *)
(* group "any run of . or a backslash and n" repeated once or more, and a  *)
(* lookahead for \s###.  The second is # followed by any run of dots.      *)
(* The regular expression is modelled by what Python's engine does with    *)
(* it: the scan goes left to right, at every position the first            *)
(* alternative is tried before the second, a repetition is greedy and      *)
(* backtracks to shorter matches, and a match is replaced by nothing.      *)
(* Positions are 1-based; a match is reported as the position that follows *)
(* it, and 0 means no match.                                               *)
(***************************************************************************)

\* \s : the whitespace characters
IsSpace(c) == c \in {" ", "\t", "\n", "\r", "\f"}

\* The class "." of the expression (written Dot here): any character but
\* the newline (the expression is compiled without DOTALL).
DotAll(c) == TRUE      \* the class as it would be under DOTALL
Dot(c) == c # "\n"

\* "###" occupies the positions i, i+1, i+2 of s
MarkerAt(s, i) ==
    /\ i >= 1
    /\ i + 2 <= Len(s)
    /\ s[i] = "#" /\ s[i + 1] = "#" /\ s[i + 2] = "#"

\* (?<=###) at position i: the three characters before i are ###
LookBehind(s, i) == MarkerAt(s, i - 3)

\* (?=\s###) at position j
LookAhead(s, j) == j <= Len(s) /\ IsSpace(s[j]) /\ MarkerAt(s, j + 1)

\* The position at which a greedy run of dots that starts at i stops: the first
\* position from i on that holds no Dot character, or Len(s) + 1.
DotStarEnd(s, i) ==
    CHOOSE j \in i..(Len(s) + 1) :
        /\ j = Len(s) + 1 \/ ~Dot(s[j])
        /\ \A k \in i..(j - 1) : Dot(s[k])

Max(S) == CHOOSE x \in S : \A y \in S : y <= x

\* First alternative, tried at position i: lookbehind, \s, group, lookahead.
\* The repeated group matches any run of Dot characters, the empty run
\* included (a backslash followed by n is two Dot characters); being
\* greedy it settles on the longest run that the lookahead accepts.
BlockMatch(s, i) ==
    IF i <= Len(s) /\ LookBehind(s, i) /\ IsSpace(s[i])
    THEN LET ends == {j \in (i + 1)..DotStarEnd(s, i + 1) : LookAhead(s, j)}
         IN IF ends = {} THEN 0 ELSE Max(ends)
    ELSE 0

\* Second alternative, tried at position i: # and the rest of its line
\* (the same with the # made optional)
LineMatchOptionalHash(s, i) ==
    IF i <= Len(s) THEN DotStarEnd(s, IF s[i] = "#" THEN i + 1 ELSE i) ELSE 0
LineMatch(s, i) ==
    IF i <= Len(s) /\ s[i] = "#" THEN DotStarEnd(s, i + 1) ELSE 0

\* The whole expression at position i: the alternatives in their order
Match(s, i) ==
    IF BlockMatch(s, i) # 0 THEN BlockMatch(s, i) ELSE LineMatch(s, i)

\* re.sub(expression, '', s) from position i on: a match is dropped and the
\* scan resumes after it, an unmatched character is copied.
\* re.sub as it would be with count=1: only the first match is dropped
RECURSIVE SubOnce(_, _)
SubOnce(s, i) ==
    IF i > Len(s) THEN <<>>
    ELSE LET m == Match(s, i)
         IN IF m > i THEN SubSeq(s, m, Len(s)) ELSE <<s[i]>> \o SubOnce(s, i + 1)
RECURSIVE Sub(_, _)
Sub(s, i) ==
    IF i > Len(s) THEN <<>>
    ELSE LET m == Match(s, i)
         IN IF m > i THEN Sub(s, m) ELSE <<s[i]>> \o Sub(s, i + 1)

clean_source(text) == Sub(text, 1)

(***************************************************************************)
(* The Story object and the collaborators it calls.                        *)
(***************************************************************************)
MaxDocs == 2      \* Story objects the caller may hold at a time

DocIds == 1..MaxDocs

\* The file system Story.read opens: a story with a line comment and one
\* with a block comment; any other path names no file.
Files ==
    [main_story |-> <<"a", " ", "#", "b">>,
     lib_story |-> <<"#", "#", "#", "\n", "b", "\n", "#", "#", "#", "\n", "a">>]
Paths == {"main_story", "lib_story", "missing_story"}
FileExists(path) == path \in DOMAIN Files

\* The texts a caller passes to Story(...) or a stream yields
SourceTexts == {<<"a">>, <<"a", " ", "#", "b">>}

\* The grammars a caller may pass as ebnf; "None" is the default grammar
Ebnfs == {"None", "strict", "broken"}

SyntaxFailures == {"UnexpectedToken", "UnexpectedInput"}
SemanticFailures == {"CompilerError", "StorySyntaxError"}

\* Story.__init__: tree and compiled are not set by the constructor.  The
\* field state is the lifecycle state of the document (Loaded, Parsed,
\* Compiled, Failed); the class keeps no such field, it is derived here
\* from the outcome of the latest parse or compile.
Story(story, path) ==
    [live |-> TRUE, story |-> story, path |-> path,
     tree |-> Unset, compiled |-> Unset, state |-> "Loaded"]

NoStory ==
    [live |-> FALSE, story |-> <<>>, path |-> "None",
     tree |-> Unset, compiled |-> Unset, state |-> "None"]

\* Parser(ebnf).parse(text): the tree it builds, known only by the text and
\* the grammar it was built from.
Tree(text, ebnf) == [text |-> text, ebnf |-> ebnf]

\* What Parser(ebnf).parse(text) may do: build the tree, or raise one of the
\* syntax failures.  The grammar decides which; the text does not, so that a
\* story may parse under one grammar and fail under another.
ParserOutcomes(text, ebnf) ==
    IF ebnf # "broken" THEN {"tree"} ELSE SyntaxFailures

\* Compiler.compile(tree): the artifact, known only by the tree it stems from
Artifact(tree) == [from |-> tree]

\* What Compiler.compile(tree) may do: return the artifact, or raise one of
\* the semantic failures.  A tree of the default grammar compiles; on a tree
\* of the grammar "strict" the Compiler may fail, and may do otherwise when
\* it is called again on the same tree.
CompilerOutcomes(tree) ==
    IF tree.ebnf # "strict" THEN {"artifact"}
    ELSE SemanticFailures \cup {"artifact"}

\* StoryError(error, path, story).echo(): the rendered diagnostic
StoryError(error, path, story) ==
    [error |-> error, path |-> path, story |-> story]

\* exit() without an argument raises SystemExit(None): exit status 0
ExitStatus == 0

\* What a call did: its outcome for the caller ("returned", "raised" or
\* "exit"), the exception the caller sees, the failure a collaborator
\* raised (the first one, should there be two) and the debug argument
\* Story.error got with it, the diagnostic echoed, the text the Parser got
\* and the tree it returned, the tree the Compiler got and the value
\* returned to the caller.
Quiet ==
    [outcome |-> "returned", raised |-> Unset, thrown |-> Unset,
     debug |-> Unset, echoed |-> Unset, parser_in |-> Unset,
     parser_out |-> Unset, compiler_in |-> Unset, result |-> Unset,
     args |-> <<>>]

\* Story.error as it would be if it ignored debug and always echoed and
\* exited
ErrorIgnoresDebug(doc, err, debug) ==
    [Quiet EXCEPT !.outcome = "exit",
                  !.thrown = Some(err), !.debug = Some(debug),
                  !.echoed = Some(StoryError(err, doc.path, doc.story))]
\* Story.error as it would be without the exit() after the echo
ErrorWithoutExit(doc, err, debug) ==
    IF debug
    THEN [Quiet EXCEPT !.outcome = "raised",
                       !.thrown = Some(err), !.debug = Some(debug),
                       !.raised = Some(err)]
    ELSE [Quiet EXCEPT !.outcome = "returned",
                       !.thrown = Some(err), !.debug = Some(debug),
                       !.echoed = Some(StoryError(err, doc.path, doc.story))]
\* Story.error(error, debug): raise the error itself when debug is set, else
\* echo the diagnostic and exit.
error(doc, err, debug) ==
    IF debug
    THEN [Quiet EXCEPT !.outcome = "raised",
                       !.thrown = Some(err), !.debug = Some(debug),
                       !.raised = Some(err)]
    ELSE [Quiet EXCEPT !.outcome = "exit",
                       !.thrown = Some(err), !.debug = Some(debug),
                       !.echoed = Some(StoryError(err, doc.path, doc.story))]

\* Story.parse as it would be if a tree newly stored discarded the compiled
\* result
ParseClearsCompiled(doc, ebnf, debug, parsed) ==
    IF parsed = "tree"
    THEN [doc |-> [doc EXCEPT !.tree = Some(Tree(doc.story, ebnf)),
                              !.compiled = Unset,
                              !.state = "Parsed"],
          call |-> [Quiet EXCEPT !.parser_in = Some(doc.story),
                                 !.parser_out = Some(Tree(doc.story, ebnf))]]
    ELSE [doc |-> [doc EXCEPT !.state = "Failed"],
          call |-> [error(doc, [type |-> parsed], debug)
                       EXCEPT !.parser_in = Some(doc.story)]]
\* Story.parse(ebnf, debug): the document and the call record it leaves,
\* when the Parser does parsed (one of its outcomes).  A parse that succeeds
\* stores the tree; one that fails goes to error and stores nothing.
parse(doc, ebnf, debug, parsed) ==
    IF parsed = "tree"
    THEN [doc |-> [doc EXCEPT !.tree = Some(Tree(doc.story, ebnf)),
                              !.state = "Parsed"],
          call |-> [Quiet EXCEPT !.parser_in = Some(doc.story),
                                 !.parser_out = Some(Tree(doc.story, ebnf))]]
    ELSE [doc |-> [doc EXCEPT !.state = "Failed"],
          call |-> [error(doc, [type |-> parsed], debug)
                       EXCEPT !.parser_in = Some(doc.story)]]

\* Story.compile as it would be if it kept a compiled result already stored
CompileKeepsFirst(doc, debug, compiled) ==
    IF doc.tree = Unset
    THEN [doc |-> doc,
          call |-> [Quiet EXCEPT !.outcome = "raised",
                                 !.raised = Some([type |-> "AttributeError"])]]
    ELSE IF compiled = "artifact"
    THEN [doc |-> [doc EXCEPT !.compiled = IF doc.compiled # Unset
                                           THEN doc.compiled
                                           ELSE Some(Artifact(doc.tree[1])),
                              !.state = "Compiled"],
          call |-> [Quiet EXCEPT !.compiler_in = doc.tree]]
    ELSE [doc |-> [doc EXCEPT !.state = "Failed"],
          call |-> [error(doc, [type |-> compiled], debug)
                       EXCEPT !.compiler_in = doc.tree]]
\* Story.compile as it would be if it remembered a failure: no call of the
\* Compiler on a tree it failed on, the failure raised again
CompileCachesFailure(doc, debug, compiled) ==
    IF doc.tree = Unset
    THEN [doc |-> doc,
          call |-> [Quiet EXCEPT !.outcome = "raised",
                                 !.raised = Some([type |-> "AttributeError"])]]
    ELSE IF doc.state = "Failed"
    THEN [doc |-> doc,
          call |-> error(doc, [type |-> "CompilerError"], debug)]
    ELSE IF compiled = "artifact"
    THEN [doc |-> [doc EXCEPT !.compiled = Some(Artifact(doc.tree[1])),
                              !.state = "Compiled"],
          call |-> [Quiet EXCEPT !.compiler_in = doc.tree]]
    ELSE [doc |-> [doc EXCEPT !.state = "Failed"],
          call |-> [error(doc, [type |-> compiled], debug)
                       EXCEPT !.compiler_in = doc.tree]]
\* Story.compile(debug), when the Compiler does compiled (one of its
\* outcomes).  Reading self.tree before any parse stored one raises
\* AttributeError, which compile does not catch.
compile(doc, debug, compiled) ==
    IF doc.tree = Unset
    THEN [doc |-> doc,
          call |-> [Quiet EXCEPT !.outcome = "raised",
                                 !.raised = Some([type |-> "AttributeError"])]]
    ELSE IF compiled = "artifact"
    THEN [doc |-> [doc EXCEPT !.compiled = Some(Artifact(doc.tree[1])),
                              !.state = "Compiled"],
          call |-> [Quiet EXCEPT !.compiler_in = doc.tree]]
    ELSE [doc |-> [doc EXCEPT !.state = "Failed"],
          call |-> [error(doc, [type |-> compiled], debug)
                       EXCEPT !.compiler_in = doc.tree]]

\* Story.process(ebnf, debug): parse, then compile unless parse left by an
\* exception or an exit, then return self.compiled.
process(doc, ebnf, debug, parsed, compiled) ==
    LET p == parse(doc, ebnf, debug, parsed)
        c == compile(p.doc, debug, compiled)
        first == IF p.call.thrown # Unset THEN p.call ELSE c.call
        both == [c.call EXCEPT !.parser_in = p.call.parser_in,
                               !.parser_out = p.call.parser_out,
                               !.thrown = first.thrown,
                               !.debug = first.debug,
                               !.echoed = first.echoed]
    IN IF p.call.outcome # "returned" THEN p
       ELSE IF c.call.outcome # "returned" THEN [doc |-> c.doc, call |-> both]
       ELSE IF c.doc.compiled = Unset
       THEN [doc |-> c.doc,
             call |-> [both EXCEPT !.outcome = "raised",
                                   !.raised = Some([type |-> "AttributeError"])]]
       ELSE [doc |-> c.doc, call |-> [both EXCEPT !.result = c.doc.compiled]]

\* The record of a call: which operation, on which slot, and what it did
Call(op, d, call) == [op |-> op, doc |-> d] @@ call

Running == exit_code = Unset

\* A slot the caller may fill: one that holds no Story
Free(d) == ~docs[d].live

\* The effect of a call as it would be if tree were an attribute of the
\* class, one for all Story objects
FinishSharedTree(op, d, r) ==
    /\ docs' = [e \in DocIds |->
                  IF e = d THEN r.doc
                  ELSE IF docs[e].live
                  THEN [docs[e] EXCEPT !.tree = r.doc.tree]
                  ELSE docs[e]]
    /\ last' = Call(op, d, r.call)
    /\ exit_code' = IF r.call.outcome = "exit" THEN Some(ExitStatus) ELSE Unset
\* The effect of a call on the slot d and on the process
Finish(op, d, r) ==
    /\ docs' = [docs EXCEPT ![d] = r.doc]
    /\ last' = Call(op, d, r.call)
    /\ exit_code' = IF r.call.outcome = "exit" THEN Some(ExitStatus) ELSE Unset

\* TextSpec is not running
TextIdle ==
    /\ source = <<>>
    /\ cleaned = Unset
    /\ recleaned = Unset

\* no Story object yet, the process running, no call made
StoryIdle ==
    /\ docs = [d \in DocIds |-> NoStory]
    /\ exit_code = Unset
    /\ last = Call("none", 0, Quiet)

\* ModulesSpec is not running
ModulesIdle ==
    /\ imports = <<>>
    /\ resolved = Unset

Init == StoryIdle /\ TextIdle /\ ModulesIdle

\* Story(text)
NewStory(d, text) ==
    /\ Running /\ Free(d)
    /\ Finish("Story", d, [doc |-> Story(text, "None"), call |-> Quiet])
    /\ UNCHANGED <<textVars, modulesVars>>

\* Story.from_stream(stream): the text of the stream as it is
FromStream(d, text) ==
    /\ Running /\ Free(d)
    /\ Finish("from_stream", d,
              [doc |-> Story(text, "None"), call |-> Quiet])
    /\ UNCHANGED <<textVars, modulesVars>>

\* os.path.abspath(path): the path under the working directory
abspath(path) == <<"cwd", path>>

\* Story.from_file as it would be if read returned an empty text after the
\* report of a missing file
FromFileWithoutExit(slot, path) ==
    IF FileExists(path)
    THEN [doc |-> Story(clean_source(Files[path]), path), call |-> Quiet]
    ELSE [doc |-> Story(<<>>, path),
          call |-> [Quiet EXCEPT
                      !.echoed = Some([not_found |-> path,
                                       abspath |-> abspath(path)])]]
\* Story.from_file(path), slot being what the caller holds before: Story.read
\* cleans the text of the file; a missing file is reported and the process
\* exits before Story(...) is evaluated.
from_file(slot, path) ==
    IF FileExists(path)
    THEN [doc |-> Story(clean_source(Files[path]), path), call |-> Quiet]
    ELSE [doc |-> slot,
          call |-> [Quiet EXCEPT
                      !.outcome = "exit",
                      !.echoed = Some([not_found |-> path,
                                       abspath |-> abspath(path)])]]

FromFile(d, path) ==
    /\ Running /\ Free(d)
    /\ Finish("from_file", d, from_file(docs[d], path))
    /\ UNCHANGED <<textVars, modulesVars>>

\* The outcomes the Compiler may have on the tree a document holds (none
\* is asked for when there is no tree to hand over)
CompileChoices(doc) ==
    IF doc.tree = Unset THEN {"artifact"} ELSE CompilerOutcomes(doc.tree[1])

Parse(d, ebnf, debug) ==
    /\ Running /\ docs[d].live
    /\ \E parsed \in ParserOutcomes(docs[d].story, ebnf) :
           Finish("parse", d, parse(docs[d], ebnf, debug, parsed))
    /\ UNCHANGED <<textVars, modulesVars>>

Compile(d, debug) ==
    /\ Running /\ docs[d].live
    /\ \E compiled \in CompileChoices(docs[d]) :
           Finish("compile", d, compile(docs[d], debug, compiled))
    /\ UNCHANGED <<textVars, modulesVars>>

Process(d, ebnf, debug) ==
    /\ Running /\ docs[d].live
    /\ \E parsed \in ParserOutcomes(docs[d].story, ebnf) :
           \E compiled \in
                  CompileChoices(parse(docs[d], ebnf, debug, parsed).doc) :
               Finish("process", d,
                      process(docs[d], ebnf, debug, parsed, compiled))
    /\ UNCHANGED <<textVars, modulesVars>>

\* The calls a caller may make on the Story objects of the slots ids
Calls(ids) ==
    \/ \E d \in ids, text \in SourceTexts : NewStory(d, text)
    \/ \E d \in ids, text \in SourceTexts : FromStream(d, text)
    \/ \E d \in ids, path \in Paths : FromFile(d, path)
    \/ \E d \in ids, ebnf \in Ebnfs, debug \in BOOLEAN : Parse(d, ebnf, debug)
    \/ \E d \in ids, debug \in BOOLEAN : Compile(d, debug)
    \/ \E d \in ids, ebnf \in Ebnfs, debug \in BOOLEAN :
          Process(d, ebnf, debug)

\* Spec: a caller that works on one Story
Next == Calls({1})

Spec == Init /\ [][Next]_vars

(***************************************************************************)
(* LinesSpec: the accessors line and slice on a Story that is processed.   *)
(***************************************************************************)
MaxText == 3    \* longest text of the Story
MaxIndex == 3   \* largest index handed to an accessor

LineAlphabet == {"a", "b", "\n", "\r"}
LineTexts == StringsOver(LineAlphabet, MaxText)
Indexes == 0..MaxIndex

\* the characters str.splitlines takes as line boundaries, of LineAlphabet
IsLineBreak(c) == c = "\n" \/ c = "\r"

\* str.splitlines(keepends=False): scan to the next line boundary, take the
\* text before it as a line, step over the boundary (\r\n is one boundary),
\* go on with the rest; no line after a boundary that ends the text.
RECURSIVE splitlines(_)
splitlines(s) ==
    IF s = <<>> THEN <<>>
    ELSE LET breaks == {p \in 1..Len(s) : IsLineBreak(s[p])}
             eol == IF breaks = {} THEN Len(s) + 1
                    ELSE CHOOSE p \in breaks : \A q \in breaks : p <= q
             next == IF eol > Len(s) THEN eol
                     ELSE IF s[eol] = "\r" /\ eol < Len(s) /\ s[eol + 1] = "\n"
                     THEN eol + 2
                     ELSE eol + 1
         IN <<SubSeq(s, 1, eol - 1)>> \o splitlines(SubSeq(s, next, Len(s)))

Min(a, b) == IF a <= b THEN a ELSE b

\* Story.line(line), for an index that is not negative: the item of the
\* list at the index, IndexError beyond its end
line(doc, n) ==
    LET lines == splitlines(doc.story)
    IN [doc |-> doc,
        call |-> IF n < Len(lines)
                 THEN [Quiet EXCEPT !.args = <<n>>,
                                    !.result = Some(lines[n + 1])]
                 ELSE [Quiet EXCEPT !.args = <<n>>,
                                    !.outcome = "raised",
                                    !.raised = Some([type |-> "IndexError"])]]

\* Story.slice as it would be with the item at end included
SliceInclusive(doc, start, end) ==
    LET lines == splitlines(doc.story)
    IN [doc |-> doc,
        call |-> [Quiet EXCEPT
                    !.args = <<start, end>>,
                    !.result = Some(SubSeq(lines, start + 1,
                                           Min(end + 1, Len(lines))))]]
\* Story.slice(start, end), for indexes that are not negative: the items
\* from start up to end, end excluded, cut at the end of the list
slice(doc, start, end) ==
    LET lines == splitlines(doc.story)
    IN [doc |-> doc,
        call |-> [Quiet EXCEPT
                    !.args = <<start, end>>,
                    !.result = Some(SubSeq(lines, start + 1,
                                           Min(end, Len(lines))))]]

Line(d, n) ==
    /\ Running /\ docs[d].live
    /\ Finish("line", d, line(docs[d], n))
    /\ UNCHANGED <<textVars, modulesVars>>

Slice(d, start, end) ==
    /\ Running /\ docs[d].live
    /\ Finish("slice", d, slice(docs[d], start, end))
    /\ UNCHANGED <<textVars, modulesVars>>

\* a Story made of one of the texts
LinesInit ==
    /\ \E text \in LineTexts :
           docs = [d \in DocIds |-> IF d = 1 THEN Story(text, "None")
                                    ELSE NoStory]
    /\ exit_code = Unset
    /\ last = Call("none", 0, Quiet)
    /\ TextIdle
    /\ ModulesIdle

LinesNext ==
    \/ \E n \in Indexes : Line(1, n)
    \/ \E start \in Indexes, end \in Indexes : Slice(1, start, end)
    \/ \E ebnf \in Ebnfs, debug \in BOOLEAN : Process(1, ebnf, debug)

LinesSpec == LinesInit /\ [][LinesNext]_vars

(***************************************************************************)
(* DocsSpec: callers that work on several Story objects, their calls       *)
(* interleaved in any order.                                               *)
(***************************************************************************)
\* The text of the Story in slot d: d characters, so that no two Story
\* objects hold the same text
DocText(d) == [i \in 1..d |-> "a"]

\* The grammars the callers pass: one under which a text parses and one
\* under which it does not
SharedEbnfs == {"strict", "broken"}

DocsInit ==
    /\ docs = [d \in DocIds |-> Story(DocText(d), "None")]
    /\ exit_code = Unset
    /\ last = Call("none", 0, Quiet)
    /\ TextIdle
    /\ ModulesIdle

DocsNext ==
    \/ \E d \in DocIds, ebnf \in SharedEbnfs, debug \in BOOLEAN :
          Parse(d, ebnf, debug)
    \/ \E d \in DocIds, debug \in BOOLEAN : Compile(d, debug)
    \/ \E d \in DocIds, ebnf \in SharedEbnfs, debug \in BOOLEAN :
          Process(d, ebnf, debug)

DocsSpec == DocsInit /\ [][DocsNext]_vars

(***************************************************************************)
(* TextSpec: clean_source applied to a text, and again to its result.      *)
(***************************************************************************)
Marker == <<"#", "#", "#">>

\* prefix ### interior ### suffix, all on one line
BlockText(prefix, interior, suffix) ==
    prefix \o Marker \o interior \o Marker \o suffix

Parts == StringsOver(PlainAlphabet, MaxPart)

\* interiors set off from the markers by a blank on either side
Interiors == {<<" ">> \o m \o <<" ">> : m \in Parts}

BlockTexts == {BlockText(p, m, s) : p \in Parts, m \in Interiors, s \in Parts}

\* the examples of the documentation
Foo == <<"f", "o", "o">>
Bar == <<"b", "a", "r">>
FooHiddenBar ==
    Foo \o <<" ">> \o Marker \o <<" ", "h", "i", "d", "d", "e", "n", " ">>
        \o Marker \o <<" ">> \o Bar
FooTrailing ==
    Foo \o <<" ", "#", " ", "t", "r", "a", "i", "l", "i", "n", "g", " ",
             "c", "o", "m", "m", "e", "n", "t">>
Fixtures == {FooHiddenBar, FooTrailing}

\* the lines, each followed by its newline
RECURSIVE JoinLines(_)
JoinLines(lines) ==
    IF lines = <<>> THEN <<>>
    ELSE Head(lines) \o <<"\n">> \o JoinLines(Tail(lines))

\* a block comment that spans lines: the opening ### on a line of its own,
\* the interior lines, the closing ### on a line of its own
MultiLineBlock(lines) == Marker \o <<"\n">> \o JoinLines(lines) \o Marker

MultiLineBlocks ==
    {MultiLineBlock(lines) :
        lines \in UNION {[1..n -> Parts] : n \in 0..MaxLines}}

Inputs ==
    StringsOver(Alphabet, MaxLen) \cup BlockTexts \cup MultiLineBlocks
        \cup Fixtures

TextInit ==
    /\ source \in Inputs
    /\ cleaned = Unset
    /\ recleaned = Unset
    /\ StoryIdle
    /\ ModulesIdle

Clean ==
    /\ cleaned = Unset
    /\ cleaned' = Some(clean_source(source))
    /\ UNCHANGED <<source, recleaned>>
    /\ UNCHANGED <<storyVars, modulesVars>>

CleanAgain ==
    /\ cleaned # Unset
    /\ recleaned = Unset
    /\ recleaned' = Some(clean_source(cleaned[1]))
    /\ UNCHANGED <<source, cleaned>>
    /\ UNCHANGED <<storyVars, modulesVars>>

TextNext == Clean \/ CleanAgain

TextSpec == TextInit /\ [][TextNext]_vars

(***************************************************************************)
(* ModulesSpec: Story.modules on the import nodes of a tree.               *)
(***************************************************************************)
MaxImports == 2   \* most nodes tagged imports in a tree
MaxStem == 1      \* longest run of path characters around the suffix

Quote == "'"
Suffix == <<".", "s", "t", "o", "r", "y">>

\* The string literals of import nodes: a quoted path, with the suffix, a
\* part of it or nothing between two runs of path characters
Literals ==
    {<<Quote>> \o pre \o mid \o post \o <<Quote>> :
        pre \in StringsOver({"a", "/"}, MaxStem),
        mid \in {<<>>, Suffix, <<".", "s", "t", "o", "r">>},
        post \in StringsOver({"a"}, MaxStem)}

\* A node tagged imports: one that holds a string node whose first child is
\* a token with a literal value, one whose string node has no child, and
\* one without a string node.
ImportNode(literal) == [string |-> Some([child0 |-> Some(literal)])]
EmptyStringNode == [string |-> Some([child0 |-> Unset])]
NoStringNode == [string |-> Unset]

WellFormed(node) == node.string # Unset /\ node.string[1].child0 # Unset

ImportNodes ==
    {ImportNode(l) : l \in Literals} \cup {EmptyStringNode, NoStringNode}

\* What Python raises when module.string.child(0).value meets a node of
\* another shape: an error of the attribute or item access, which one
\* depends on the tree class.
AccessErrors == {"AttributeError", "TypeError", "IndexError"}

\* value[1:-1]
Slice1(value) == SubSeq(value, 2, Len(value) - 1)

\* path.endswith('.story')
endswith(path, suffix) ==
    /\ Len(path) >= Len(suffix)
    /\ SubSeq(path, Len(path) - Len(suffix) + 1, Len(path)) = suffix

\* The body of the loop of Story.modules for one node: the path appended
\* (the same without the test of the suffix)
ModulePathAlwaysSuffixed(value) == Slice1(value) \o Suffix
ModulePath(value) ==
    LET path == Slice1(value)
    IN IF endswith(path, Suffix) = FALSE THEN path \o Suffix ELSE path

\* Story.modules: the paths of the nodes in their order, or the error of the
\* first node that has not the expected shape (crash is the error the
\* access raises there).
RECURSIVE modules(_, _)
modules(nodes, crash) ==
    IF nodes = <<>> THEN [outcome |-> "returned", value |-> <<>>, raised |-> Unset]
    ELSE IF ~WellFormed(Head(nodes))
    THEN [outcome |-> "raised", value |-> <<>>,
          raised |-> Some([type |-> crash])]
    ELSE LET rest == modules(Tail(nodes), crash)
         IN IF rest.outcome = "raised" THEN rest
            ELSE [rest EXCEPT
                    !.value = <<ModulePath(Head(nodes).string[1].child0[1])>>
                                  \o rest.value]

ModulesInit ==
    /\ imports \in UNION {[1..n -> ImportNodes] : n \in 0..MaxImports}
    /\ resolved = Unset
    /\ StoryIdle
    /\ TextIdle

Modules ==
    /\ resolved = Unset
    /\ \E crash \in AccessErrors : resolved' = Some(modules(imports, crash))
    /\ UNCHANGED imports
    /\ UNCHANGED <<storyVars, textVars>>

ModulesNext == Modules

ModulesSpec == ModulesInit /\ [][ModulesNext]_vars

(***************************************************************************)
(* Properties of clean_source, checked under TextSpec.                     *)
(***************************************************************************)
HasHash(s) == \E k \in 1..Len(s) : s[k] = "#"
HashCount(s) == Cardinality({k \in 1..Len(s) : s[k] = "#"})

\* the end of the line that holds position i: its newline, or Len(s) + 1.
\* Lines end at the newline character, as they do in a text that Story.read
\* got from a file opened in text mode; a carriage return is a character of
\* its line like any other.
EndOfLine(s, i) ==
    CHOOSE j \in i..(Len(s) + 1) :
        /\ j = Len(s) + 1 \/ s[j] = "\n"
        /\ \A k \in i..(j - 1) : s[k] # "\n"

\* s is one line that holds one block comment, whose markers are at i and
\* j and whose interior is set off from them by a blank on either side
IsSingleLineBlock(s, i, j) ==
    /\ MarkerAt(s, i) /\ MarkerAt(s, j)
    /\ j >= i + 5
    /\ s[i + 3] = " " /\ s[j - 1] = " "
    /\ HashCount(s) = 6
    /\ \A k \in 1..Len(s) : s[k] # "\n"

\* C7: for a one-line text prefix ### interior ### suffix, clean_source
\* returns prefix followed by suffix, both unchanged; in particular
\* "foo ### hidden ### bar" becomes "foo  bar".
C7_BlockSpanRemoved ==
    cleaned # Unset =>
        /\ \A i, j \in 1..Len(source) :
               IsSingleLineBlock(source, i, j) =>
                   cleaned[1] = SubSeq(source, 1, i - 1)
                                    \o SubSeq(source, j + 3, Len(source))
        /\ source = FooHiddenBar => cleaned[1] = Foo \o <<" ", " ">> \o Bar

\* C8: clean_source applied to its own result changes nothing.
C8_Idempotent == recleaned # Unset => recleaned = cleaned

C8_Witness ==
    /\ recleaned # Unset
    /\ HasHash(source)
    /\ Len(cleaned[1]) > 0
    /\ Len(cleaned[1]) < Len(source)

\* C9: a text without any # is returned as it is.
C9_NoMarkerIdentity ==
    (cleaned # Unset /\ ~HasHash(source)) => cleaned[1] = source

C9_Witness ==
    /\ cleaned # Unset
    /\ ~HasHash(source)
    /\ Len(source) >= 3
    /\ \E k \in 1..Len(source) : source[k] = "\n"
    /\ \E k \in 1..Len(source) : source[k] = " "

\* the # at position i starts a line comment, and it is the only comment
\* of the text: it does not start a ### marker, and there is no # before
\* it nor on the lines after its own
IsLineComment(s, i) ==
    /\ s[i] = "#"
    /\ ~MarkerAt(s, i)
    /\ \A k \in 1..(i - 1) : s[k] # "#"
    /\ \A k \in EndOfLine(s, i)..Len(s) : s[k] # "#"

\* C10: a line comment is removed from its # up to, not including, the end
\* of its line; what precedes the # and what follows the line, its newline
\* included, is unchanged.  In particular "foo # trailing comment" becomes
\* "foo ".
C10_LineCommentRemoved ==
    cleaned # Unset =>
        /\ \A i \in 1..Len(source) :
               IsLineComment(source, i) =>
                   cleaned[1] = SubSeq(source, 1, i - 1)
                                    \o SubSeq(source, EndOfLine(source, i),
                                              Len(source))
        /\ source = FooTrailing => cleaned[1] = Foo \o <<" ">>

C10_Witness ==
    /\ cleaned # Unset
    /\ \E i \in 2..Len(source) :
           /\ IsLineComment(source, i)
           /\ EndOfLine(source, i) > i + 1
           /\ EndOfLine(source, i) < Len(source)

\* s is a block comment that spans lines and nothing else: ### and a
\* newline, interior lines without any #, a newline and ###
IsMultiLineBlock(s) ==
    /\ Len(s) >= 7
    /\ MarkerAt(s, 1) /\ s[4] = "\n"
    /\ MarkerAt(s, Len(s) - 2) /\ s[Len(s) - 3] = "\n"
    /\ HashCount(s) = 6

\* C11: of a block comment that spans lines, whatever the number of its
\* interior lines, clean_source leaves no content of any interior line
\* (nothing but newlines is left of the text).
C11_MultiLineBlockRemoved ==
    (cleaned # Unset /\ IsMultiLineBlock(source)) =>
        \A k \in 1..Len(cleaned[1]) : cleaned[1][k] = "\n"

(***************************************************************************)
(* Properties of the Story lifecycle, checked under Spec.                  *)
(***************************************************************************)
\* the latest call met a syntax failure of the Parser
SyntaxFailed ==
    last.thrown # Unset /\ last.thrown[1].type \in SyntaxFailures

\* the latest call met a semantic failure of the Compiler
SemanticFailed ==
    last.thrown # Unset /\ last.thrown[1].type \in SemanticFailures

\* C1: under either policy, a process() whose parse step ends in a syntax
\* failure never hands a tree to the Compiler, and leaves the compiled
\* artifact of its document as it was.
C1_NoCompileAfterSyntaxFailure ==
    /\ []((last.op = "process" /\ SyntaxFailed) => last.compiler_in = Unset)
    /\ [][(last'.op = "process" /\ SyntaxFailed')
              => docs'[last'.doc].compiled = docs[last'.doc].compiled]_vars

C1_Witness ==
    /\ last.op = "process" /\ SyntaxFailed
    /\ last.debug = Some(FALSE)
    /\ docs[last.doc].tree # Unset
    /\ docs[last.doc].compiled # Unset

\* C2: the latest parse() alone decides the state: after one that succeeded
\* the document is Parsed and holds the tree it produced; after one that
\* failed and left the caller in control the document is Failed and no tree
\* of an earlier parse can be read from it.
C2_LatestParseDecides ==
    last.op = "parse" =>
        /\ last.outcome = "returned" =>
               /\ docs[last.doc].state = "Parsed"
               /\ docs[last.doc].tree = last.parser_out
        /\ (last.outcome = "raised" /\ SyntaxFailed) =>
               /\ docs[last.doc].state = "Failed"
               /\ docs[last.doc].tree = Unset

\* C3: with debug off, every syntax failure caught by parse() and every
\* semantic failure caught by compile() has its diagnostic echoed and ends
\* the process with an exit status other than zero.
C3_TerminatingExitsNonZero ==
    ((SyntaxFailed \/ SemanticFailed) /\ last.debug = Some(FALSE)) =>
        /\ last.echoed # Unset
        /\ exit_code # Unset
        /\ exit_code[1] # 0

\* C4: with debug on, a failure raised by the Parser or by the Compiler
\* reaches the caller as the very value that was raised; nothing is echoed
\* and the process goes on.
C4_PropagatingReraises ==
    ((SyntaxFailed \/ SemanticFailed) /\ last.debug = Some(TRUE)) =>
        /\ last.outcome = "raised"
        /\ last.raised = last.thrown
        /\ last.echoed = Unset
        /\ exit_code = Unset

C4_Witness ==
    /\ last.op = "process" /\ SyntaxFailed
    /\ last.debug = Some(TRUE)
    /\ last.raised = last.thrown
    /\ exit_code = Unset

\* C5: whatever way the document was created, the text parse() hands to the
\* Parser is the document's text with its comments stripped, and holds no
\* comment marker.
C5_ParserGetsStrippedText ==
    last.parser_in # Unset =>
        /\ last.parser_in[1] = clean_source(docs[last.doc].story)
        /\ ~HasHash(last.parser_in[1])

\* C6: compile() hands a tree to the Compiler only in state Parsed or
\* Compiled, and in state Loaded or Failed it neither creates nor replaces
\* the compiled artifact.
C6_CompileOnlyWhenParsed ==
    [][last'.op = "compile" =>
          /\ last'.compiler_in # Unset
                 => docs[last'.doc].state \in {"Parsed", "Compiled"}
          /\ docs[last'.doc].state \in {"Loaded", "Failed"}
                 => docs'[last'.doc].compiled = docs[last'.doc].compiled]_vars

(***************************************************************************)
(* Properties of Story.modules, checked under ModulesSpec.                 *)
(***************************************************************************)
AllWellFormed == \A i \in 1..Len(imports) : WellFormed(imports[i])

LiteralOf(node) == node.string[1].child0[1]

\* t is s with its first and its last character removed
IsInnerOf(t, s) ==
    /\ Len(t) = Len(s) - 2
    /\ \A k \in 1..Len(t) : t[k] = s[k + 1]

\* t ends with .story
HasSuffix(t) ==
    /\ Len(t) >= 6
    /\ \A k \in 1..6 : t[Len(t) - 6 + k] = Suffix[k]

\* C12: modules() returns one path per node tagged imports, in the order of
\* the nodes, duplicates kept; a path is the literal of its node without its
\* first and last character, followed by .story if and only if what is left
\* of the literal does not end with .story already.
C12_ModulesPaths ==
    (resolved # Unset /\ AllWellFormed) =>
        /\ resolved[1].outcome = "returned"
        /\ Len(resolved[1].value) = Len(imports)
        /\ \A i \in 1..Len(imports) :
               LET lit == LiteralOf(imports[i])
                   path == resolved[1].value[i]
                   inner == SubSeq(path, 1, Len(lit) - 2)
               IN /\ HasSuffix(path)
                  /\ IsInnerOf(inner, lit)
                  /\ IF HasSuffix(inner)
                     THEN path = inner
                     ELSE path = inner \o Suffix

\* two nodes with the same literal, whose path ends with .story already:
\* two paths are returned
C12_Witness ==
    /\ resolved # Unset /\ AllWellFormed
    /\ Len(imports) = 2
    /\ imports[1] = imports[2]
    /\ HasSuffix(Slice1(LiteralOf(imports[1])))
    /\ Len(resolved[1].value) = 2

\* C13: when modules() meets a node tagged imports that has not the nested
\* string shape, it fails with a MalformedImport error that names the node.
C13_MalformedImportRaised ==
    (resolved # Unset /\ ~AllWellFormed) =>
        /\ resolved[1].outcome = "raised"
        /\ resolved[1].raised[1].type = "MalformedImport"

(***************************************************************************)
(* Properties of Story.from_file, checked under Spec.                      *)
(***************************************************************************)
\* C14: when the named file does not exist, from_file reports the path and
\* its absolute path and ends the process; no Story is made of it, and
\* neither the Parser nor the Compiler is called.
C14_MissingFileEndsProcess ==
    /\ [](last.op = "from_file" =>
            /\ docs[last.doc].live => FileExists(docs[last.doc].path)
            /\ last.echoed # Unset =>
                 /\ last.echoed[1].not_found \in Paths
                 /\ ~FileExists(last.echoed[1].not_found)
                 /\ last.echoed[1].abspath = <<"cwd", last.echoed[1].not_found>>
                 /\ exit_code # Unset
                 /\ \A d \in DocIds : ~docs[d].live
                 /\ last.parser_in = Unset /\ last.compiler_in = Unset)
    /\ [][exit_code # Unset => UNCHANGED vars]_vars

C14_Witness ==
    /\ last.op = "from_file" /\ last.outcome = "exit"
    /\ last.echoed # Unset /\ last.echoed[1].not_found = "missing_story"
    /\ exit_code # Unset
    /\ \A d \in DocIds : ~docs[d].live

(***************************************************************************)
(* Properties of Story.line and Story.slice, checked under LinesSpec.      *)
(***************************************************************************)
\* p is the last character of a line terminator of s
EndsTerminator(s, p) ==
    \/ s[p] = "\n"
    \/ s[p] = "\r" /\ ~(p < Len(s) /\ s[p + 1] = "\n")

\* the positions of s where a line begins
LineStarts(s) == {p \in 1..Len(s) : p = 1 \/ EndsTerminator(s, p - 1)}

LineCount(s) == Cardinality(LineStarts(s))

\* line n of s, counted from 0: from its start to the character before the
\* next terminator
NthLine(s, n) ==
    LET p == CHOOSE q \in LineStarts(s) :
                 Cardinality({r \in LineStarts(s) : r < q}) = n
        e == CHOOSE f \in (p - 1)..Len(s) :
                 /\ \A q \in p..f : s[q] \notin {"\n", "\r"}
                 /\ f = Len(s) \/ s[f + 1] \in {"\n", "\r"}
    IN SubSeq(s, p, e)

\* C15: on a text of lines L[0..k-1], terminators excluded, line(n) returns
\* L[n] when 0 <= n < k and slice(start, end) returns L[start..end-1] when
\* 0 <= start <= end <= k; no accessor changes the text, the tree or the
\* compiled result of the Story.
C15_AccessorsReadLines ==
    /\ [](LET s == docs[1].story
              k == LineCount(s)
          IN /\ (last.op = "line" /\ last.args[1] < k) =>
                   /\ last.outcome = "returned"
                   /\ last.result = Some(NthLine(s, last.args[1]))
             /\ (last.op = "slice" /\ last.args[1] <= last.args[2]
                                   /\ last.args[2] <= k) =>
                   /\ last.outcome = "returned"
                   /\ Len(last.result[1]) = last.args[2] - last.args[1]
                   /\ \A i \in 1..Len(last.result[1]) :
                         last.result[1][i] = NthLine(s, last.args[1] + i - 1))
    /\ [][last'.op \in {"line", "slice"} => docs' = docs]_vars

\* the slice that holds the second line of a text whose first line ends
\* with \r\n, on a Story that holds a tree and a compiled result
C15_Witness ==
    /\ last.op = "slice" /\ last.args = <<1, 2>>
    /\ docs[1].story = <<"\r", "\n", "b">>
    /\ docs[1].tree # Unset /\ docs[1].compiled # Unset
    /\ last.result = Some(<<<<"b">>>>)

(***************************************************************************)
(* Frame and result properties of parse, compile and process.              *)
(***************************************************************************)
\* C16: parse(), whether it succeeds or fails, leaves the compiled result
\* of the Story as it was.
C16_ParseKeepsCompiled ==
    [][last'.op = "parse" =>
          docs'[last'.doc].compiled = docs[last'.doc].compiled]_vars

\* after a parse that succeeded, the Story holds a compiled result that
\* stems from another tree than the one it holds now
C16_Witness ==
    /\ last.op = "parse" /\ last.outcome = "returned"
    /\ docs[1].compiled # Unset
    /\ docs[1].tree # Unset
    /\ docs[1].compiled[1].from # docs[1].tree[1]

\* C17: when process() returns, the Story is in state Compiled and the value
\* returned is the compiled result it holds, which the Compiler made from
\* the tree the Parser returned within this call.
C17_ProcessReturnsOwnArtifact ==
    (last.op = "process" /\ last.outcome = "returned") =>
        /\ docs[last.doc].state = "Compiled"
        /\ last.result # Unset
        /\ last.result = docs[last.doc].compiled
        /\ last.parser_out # Unset
        /\ last.compiler_in = last.parser_out
        /\ last.result[1].from = last.parser_out[1]
        /\ docs[last.doc].tree = last.parser_out

C17_Witness ==
    /\ last.op = "process" /\ last.outcome = "returned"
    /\ last.result # Unset
    /\ last.result[1].from.ebnf = "strict"
    /\ docs[1].state = "Compiled"

\* C18: a compile() that fails with a semantic failure and raises it to the
\* caller leaves the tree and the compiled result of the Story as they were;
\* a compile() called after such a failure hands the tree to the Compiler
\* again.
C18_CompileFailureKeepsState ==
    /\ [][(last'.op = "compile" /\ last'.outcome = "raised"
            /\ last'.thrown # Unset
            /\ last'.thrown[1].type \in SemanticFailures) =>
              /\ docs'[last'.doc].tree = docs[last'.doc].tree
              /\ docs'[last'.doc].compiled = docs[last'.doc].compiled]_vars
    /\ [][(last.op = "compile" /\ SemanticFailed
            /\ last.outcome = "raised"
            /\ last'.op = "compile" /\ last' # last) =>
              /\ last'.compiler_in # Unset
              /\ last'.compiler_in = docs[last.doc].tree]_vars

\* a compile that failed and raised, on a Story that holds a tree and the
\* compiled result of an earlier compile
C18_Witness ==
    /\ last.op = "compile" /\ last.outcome = "raised"
    /\ last.thrown # Unset /\ last.thrown[1].type \in SemanticFailures
    /\ docs[1].tree # Unset
    /\ docs[1].compiled # Unset
    /\ docs[1].state = "Failed"

(***************************************************************************)
(* Independence of Story objects, checked under DocsSpec.                  *)
(***************************************************************************)
\* C19: parse(), compile() and process() on one Story neither read nor
\* change the text, the tree or the compiled result of another: a call
\* leaves every other Story as it was, and what a Story holds stems from
\* its own text.
C19_DocumentsIndependent ==
    /\ [](\A d \in DocIds :
            /\ docs[d].story = DocText(d)
            /\ docs[d].tree # Unset => docs[d].tree[1].text = DocText(d)
            /\ docs[d].compiled # Unset =>
                   docs[d].compiled[1].from.text = DocText(d))
    /\ [][\A d \in DocIds : d # last'.doc => docs'[d] = docs[d]]_vars

\* a call on the second Story failed while the first holds the compiled
\* result of its own tree
C19_Witness ==
    /\ last.doc = 2 /\ last.outcome = "raised"
    /\ docs[2].state = "Failed"
    /\ docs[1].state = "Compiled"
    /\ docs[1].compiled # Unset
    /\ docs[1].compiled[1].from.text = DocText(1)
    /\ docs[2].tree # Unset

====
